---- MODULE Spec2Model ----
(***************************************************************************)
(* Model of src/renderer/components/NodeDocumentation/                     *)
(* NodeDocumentationModal.tsx: the helper-node map, the search memo with   *)
(* its promotion of parents, the highlight pattern and the auto-select     *)
(* effect.  One action is one event handler together with the render and   *)
(* the effects that React runs after it.                                   *)
(***************************************************************************)
EXTENDS Integers, Sequences, FiniteSets, TLC

VARIABLES schemata, selectedSchemaId, searchQuery, helperNodeMapping,
          searchScores, searchTerms, autoSelectCall, event

vars == <<schemata, selectedSchemaId, searchQuery, helperNodeMapping,
          searchScores, searchTerms, autoSelectCall, event>>

(***************************************************************************)
(* Bounds and input universes                                              *)
(***************************************************************************)
MaxScore == 2
MaxHelperDecls == 2

SchemaIds == {"A", "B", "C"}
Scores == 1..MaxScore

\* absent values: no selected schema or no parent (Undefined), no call of
\* openNodeDocumentation by the effect (NoCall)
Undefined == "undefined"
NoCall == "nocall"

\* searchScores and searchTerms are undefined while the search is inactive:
\* an optional value is Absent or Some(v)
Absent == <<>>
Some(v) == <<v>>
IsSome(o) == Len(o) = 1
Value(o) == o[1]

\* query strings are sequences of characters
Queries == {<<>>, <<" ">>, <<"a">>, <<" ", "a">>}

\* a term is a sequence of characters
Blur == <<"b", "l", "u", "r">>

(***************************************************************************)
(* Sequence helpers                                                        *)
(***************************************************************************)
SeqsUpTo(S, n) == UNION {[1..k -> S] : k \in 0..n}

(***************************************************************************)
(* String.prototype.trim on a character sequence                           *)
(***************************************************************************)
RECURSIVE TrimStart(_)
TrimStart(q) ==
    IF q # <<>> /\ Head(q) = " " THEN TrimStart(Tail(q)) ELSE q

RECURSIVE TrimEnd(_)
TrimEnd(q) ==
    IF q # <<>> /\ q[Len(q)] = " " THEN TrimEnd(SubSeq(q, 1, Len(q) - 1)) ELSE q

\* variant: the query is tested untrimmed
NoTrim(q) == q

Trim(q) == TrimEnd(TrimStart(q))

(***************************************************************************)
(* Schema collection                                                       *)
(***************************************************************************)
\* a NodeSchema: its identifier, its default (helper) nodes, and what the
\* search index holds for its text fields (category, description, name,
\* subcategory, inputs, outputs): the score the index gives the schema for
\* the query term (0: the schema does not match) and the terms of its text
\* that the index reports as matched
NodeSchemaOver(termSets) ==
    [schemaId : SchemaIds, defaultNodes : SUBSET SchemaIds,
     relevance : 0..MaxScore, terms : termSets]

SchemaIdsOf(coll) == {coll[i].schemaId : i \in DOMAIN coll}

RECURSIVE HelperDecls(_)
HelperDecls(coll) ==
    IF coll = <<>> THEN 0
    ELSE Cardinality(Head(coll).defaultNodes) + HelperDecls(Tail(coll))

\* identifiers are interchangeable, so schemata.schemata is listed in the
\* order of its identifiers
IdRank == [id \in SchemaIds |-> CASE id = "A" -> 1 [] id = "B" -> 2 [] OTHER -> 3]

\* schemata.schemata: schemas with pairwise distinct identifiers, none of
\* them its own default node
IsCollection(coll) ==
    /\ \A i \in DOMAIN coll : coll[i].schemaId \notin coll[i].defaultNodes
    /\ \A i, j \in DOMAIN coll :
          i < j => IdRank[coll[i].schemaId] < IdRank[coll[j].schemaId]
    /\ HelperDecls(coll) <= MaxHelperDecls

RemoveAt(s, i) == SubSeq(s, 1, i - 1) \o SubSeq(s, i + 1, Len(s))

InsertAt(s, i, x) == SubSeq(s, 1, i - 1) \o <<x>> \o SubSeq(s, i, Len(s))

\* the place of a new schema in the listing
PlaceOf(coll, id) ==
    1 + Cardinality({i \in DOMAIN coll : IdRank[coll[i].schemaId] < IdRank[id]})

\* the schemas that can join the collection
CanJoin(coll, s) ==
    /\ s.schemaId \notin SchemaIdsOf(coll)
    /\ s.schemaId \notin s.defaultNodes
    /\ HelperDecls(coll) + Cardinality(s.defaultNodes) <= MaxHelperDecls

\* the collections a backend refresh may deliver next: the same schemas in a
\* new object, one schema more, or one schema less
Replacements(coll, schemas) ==
    {coll}
    \cup {InsertAt(coll, PlaceOf(coll, s.schemaId), s) :
            s \in {t \in schemas : CanJoin(coll, t)}}
    \cup {RemoveAt(coll, i) : i \in DOMAIN coll}

(***************************************************************************)
(* helperNodeMapping (useMemo, lines 62-70)                                *)
(***************************************************************************)
\* the Map<SchemaId, SchemaId> is kept as a function; the inner loop sets
\* every helper of one schema to that schema
RECURSIVE BuildHelperMapping(_, _)
BuildHelperMapping(coll, mapping) ==
    IF coll = <<>> THEN mapping
    ELSE LET schema == Head(coll)
             withHelpers ==
                 [x \in DOMAIN mapping \cup schema.defaultNodes |->
                     IF x \in schema.defaultNodes THEN schema.schemaId
                     ELSE mapping[x]]
         IN BuildHelperMapping(Tail(coll), withHelpers)

EmptyMapping == [x \in {} |-> Undefined]

HelperNodeMapping(coll) == BuildHelperMapping(coll, EmptyMapping)

\* Map.prototype.get
MappingGet(mapping, k) == IF k \in DOMAIN mapping THEN mapping[k] ELSE Undefined

(***************************************************************************)
(* createSearchIndex (lines 26-52) and searchIndex.search (lines 77-82)    *)
(***************************************************************************)
\* the index holds one document per schema, keyed by schemaId
CreateSearchIndex(coll) ==
    [i \in DOMAIN coll |->
        [id |-> coll[i].schemaId, score |-> coll[i].relevance,
         terms |-> coll[i].terms]]

\* stable insertion of a result into a list ordered by descending score
RECURSIVE InsertByScore(_, _)
InsertByScore(sorted, r) ==
    IF sorted = <<>> THEN <<r>>
    ELSE IF Head(sorted).score < r.score THEN <<r>> \o sorted
    ELSE <<Head(sorted)>> \o InsertByScore(Tail(sorted), r)

RECURSIVE SortByScore(_, _)
SortByScore(docs, sorted) ==
    IF docs = <<>> THEN sorted
    ELSE SortByScore(Tail(docs), InsertByScore(sorted, Head(docs)))

\* the documents that match, best score first
Search(index) ==
    SortByScore(SelectSeq(index, LAMBDA d : d.score > 0), <<>>)

(***************************************************************************)
(* The score map: a Map<SchemaId, number> kept in insertion order          *)
(***************************************************************************)
ScoresHas(scores, k) == \E i \in DOMAIN scores : scores[i].id = k

ScoresGet(scores, k) ==
    LET i == CHOOSE j \in DOMAIN scores : scores[j].id = k IN scores[i].score

\* variant: set leaves an existing entry alone
ScoresSetKeepExisting(scores, k, v) ==
    IF ScoresHas(scores, k) THEN scores
    ELSE Append(scores, [id |-> k, score |-> v])

ScoresSet(scores, k, v) ==
    IF ScoresHas(scores, k)
    THEN [i \in DOMAIN scores |->
            IF scores[i].id = k THEN [id |-> k, score |-> v] ELSE scores[i]]
    ELSE Append(scores, [id |-> k, score |-> v])

ScoresKeys(scores) == {scores[i].id : i \in DOMAIN scores}

\* variant: the parent takes the score of every matching helper
PromoteStepOverwrite(scores, result, mapping) ==
    LET id == result.id
        direct == ScoresSet(scores, id, result.score)
        parent == MappingGet(mapping, id)
    IN IF parent # Undefined
       THEN ScoresSet(direct, parent, result.score)
       ELSE direct

\* variant: parents are not promoted
PromoteStepNoPromotion(scores, result, mapping) ==
    ScoresSet(scores, result.id, result.score)

\* one iteration of the loop of lines 87-96
PromoteStep(scores, result, mapping) ==
    LET id == result.id
        direct == ScoresSet(scores, id, result.score)
        parent == MappingGet(mapping, id)
    IN IF parent # Undefined /\ ~ScoresHas(direct, parent)
       THEN ScoresSet(direct, parent, result.score)
       ELSE direct

RECURSIVE BuildScores(_, _, _)
BuildScores(results, scores, mapping) ==
    IF results = <<>> THEN scores
    ELSE BuildScores(Tail(results),
                     PromoteStep(scores, Head(results), mapping), mapping)

(***************************************************************************)
(* Terms (line 84)                                                         *)
(***************************************************************************)
LowerChar(c) == IF c = "B" THEN "b" ELSE c

ToLowerCase(t) == [i \in DOMAIN t |-> LowerChar(t[i])]

TermsOf(results) ==
    {ToLowerCase(t) : t \in UNION {results[i].terms : i \in DOMAIN results}}

(***************************************************************************)
(* The search memo (lines 74-98)                                           *)
(***************************************************************************)
SearchMemo(query, index, mapping) ==
    IF Trim(query) = <<>>
    THEN [searchScores |-> Absent, searchTerms |-> Absent]
    ELSE LET searchResults == Search(index)
         IN [searchScores |-> Some(BuildScores(searchResults, <<>>, mapping)),
             searchTerms |-> Some(TermsOf(searchResults))]

(***************************************************************************)
(* The highlight pattern (useMemo, lines 100-103)                          *)
(***************************************************************************)
\* escapeRegExp: a backslash before every character that is special in a
\* pattern
RegExpSpecialChars == {".", "*", "+", "?", "^", "$", "{", "}", "(", ")", "|", "[", "]", "\\"}

RECURSIVE EscapeRegExp(_)
EscapeRegExp(t) ==
    IF t = <<>> THEN <<>>
    ELSE IF Head(t) \in RegExpSpecialChars
         THEN <<"\\", Head(t)>> \o EscapeRegExp(Tail(t))
         ELSE <<Head(t)>> \o EscapeRegExp(Tail(t))

\* RegExp reads one alternative of the pattern source as a list of atoms:
\* an escaped character or an ordinary one stands for itself, a bare dot
\* for any character
RECURSIVE CompileAlternative(_)
CompileAlternative(src) ==
    IF src = <<>> THEN <<>>
    ELSE IF Head(src) = "\\" /\ Len(src) >= 2
         THEN <<[kind |-> "char", ch |-> src[2]]>>
                  \o CompileAlternative(SubSeq(src, 3, Len(src)))
    ELSE IF Head(src) = "."
         THEN <<[kind |-> "any", ch |-> "."]>> \o CompileAlternative(Tail(src))
    ELSE <<[kind |-> "char", ch |-> Head(src)]>> \o CompileAlternative(Tail(src))

\* variant: the pattern without the lookahead
RegExpOfNoLookahead(terms) ==
    [alternatives |-> {CompileAlternative(EscapeRegExp(t)) : t \in terms},
     notBeforeWord |-> FALSE,
     ignoreCase |-> TRUE]

\* RegExp(`(?:${alternatives joined by |})(?!\\w)`, 'ig')
RegExpOf(terms) ==
    [alternatives |-> {CompileAlternative(EscapeRegExp(t)) : t \in terms},
     notBeforeWord |-> TRUE,
     ignoreCase |-> TRUE]

HighlightRegex(terms) ==
    IF ~IsSome(terms) THEN Absent ELSE Some(RegExpOf(Value(terms)))

\* \w
IsWordChar(c) == c \in {"a", "b", "l", "r", "u", "y", "B", "_", "0"}

AtomMatches(atom, c, ignoreCase) ==
    \/ atom.kind = "any"
    \/ atom.kind = "char" /\ atom.ch = c
    \/ atom.kind = "char" /\ ignoreCase /\ LowerChar(atom.ch) = LowerChar(c)

\* the alternative matches text at position i and the lookahead holds there
AlternativeMatchesAt(regex, alt, text, i) ==
    /\ i + Len(alt) - 1 <= Len(text)
    /\ \A k \in DOMAIN alt : AtomMatches(alt[k], text[i + k - 1], regex.ignoreCase)
    /\ regex.notBeforeWord =>
          \/ i + Len(alt) > Len(text)
          \/ ~IsWordChar(text[i + Len(alt)])

\* the spans <<start, length>> at which the pattern can match in text
RegExpMatches(regex, text) ==
    {span \in (1..(Len(text) + 1)) \X (0..Len(text)) :
        \E alt \in regex.alternatives :
            /\ Len(alt) = span[2]
            /\ AlternativeMatchesAt(regex, alt, text, span[1])}

(***************************************************************************)
(* Auto-select (useEffect, lines 106-118)                                  *)
(***************************************************************************)
Max(S) == CHOOSE x \in S : \A y \in S : y <= x

HighestScore(scores) == Max({scores[i].score : i \in DOMAIN scores})

\* variant: the last entry with the highest score
HighestScoreSchemaIdLast(scores) ==
    LET hits == {i \in DOMAIN scores : scores[i].score = HighestScore(scores)}
        last == CHOOSE i \in hits : \A j \in hits : j <= i
    IN scores[last].id

\* [...entries()].find(([, score]) => score === highestScore)?.[0]
HighestScoreSchemaId(scores) ==
    LET hits == {i \in DOMAIN scores : scores[i].score = HighestScore(scores)}
        first == CHOOSE i \in hits : \A j \in hits : i <= j
    IN scores[first].id

\* variant: the best match is opened as it is
ResolveHelperIdentity(mapping, id) == id

\* helperNodeMapping.get(id) ?? id
ResolveHelper(mapping, id) ==
    IF MappingGet(mapping, id) # Undefined THEN MappingGet(mapping, id) ELSE id

\* the argument the effect passes to openNodeDocumentation, NoCall if none
AutoSelect(scores, mapping) ==
    IF IsSome(scores) /\ Len(Value(scores)) > 0
    THEN ResolveHelper(mapping, HighestScoreSchemaId(Value(scores)))
    ELSE NoCall

\* variant: the memo depends on the query alone
MemoDepsQueryOnly(schemataChanged, queryChanged) == queryChanged

\* useMemo dependencies of the search memo: [searchIndex, searchQuery,
\* helperNodeMapping]; the index and the helper map follow the collection
MemoDepsChanged(schemataChanged, queryChanged) ==
    schemataChanged \/ queryChanged

\* the memo returns a fresh Map when it recomputes an active search, and
\* undefined for an inactive one
ScoresRefChanged(recomputed, oldScores, newScores) ==
    recomputed /\ (IsSome(oldScores) \/ IsSome(newScores))

\* variant: an effect without a dependency list
EffectRunsEveryRender(scoresRefChanged, mappingRefChanged, openRefChanged) == TRUE

\* useEffect dependencies: [searchScores, helperNodeMapping,
\* openNodeDocumentation]
EffectDepsChanged(scoresRefChanged, mappingRefChanged, openRefChanged) ==
    scoresRefChanged \/ mappingRefChanged \/ openRefChanged

(***************************************************************************)
(* NodeDocumentationContext                                                *)
(***************************************************************************)
\* openNodeDocumentation(id): the schema shown after the request, for a
\* given or no identifier
OpenNodeDocumentation(current, id) == IF id = NoCall THEN current ELSE id

\* the context hands out the same openNodeDocumentation on every render
OpenNodeDocumentationRefChanged == FALSE

(***************************************************************************)
(* One render after an event, with the effect that follows it              *)
(***************************************************************************)
Render(ev, newSchemata, schemataChanged, newQuery, sel) ==
    LET mapping == IF schemataChanged THEN HelperNodeMapping(newSchemata)
                   ELSE helperNodeMapping
        recomputed == MemoDepsChanged(schemataChanged, newQuery # searchQuery)
        memo == IF recomputed
                THEN SearchMemo(newQuery, CreateSearchIndex(newSchemata), mapping)
                ELSE [searchScores |-> searchScores, searchTerms |-> searchTerms]
        runEffect == EffectDepsChanged(
                         ScoresRefChanged(recomputed, searchScores, memo.searchScores),
                         schemataChanged, OpenNodeDocumentationRefChanged)
        call == IF runEffect THEN AutoSelect(memo.searchScores, mapping) ELSE NoCall
    IN /\ schemata' = newSchemata
       /\ searchQuery' = newQuery
       /\ helperNodeMapping' = mapping
       /\ searchScores' = memo.searchScores
       /\ searchTerms' = memo.searchTerms
       /\ autoSelectCall' = call
       /\ selectedSchemaId' = OpenNodeDocumentation(sel, call)
       /\ event' = ev

(***************************************************************************)
(* Events                                                                  *)
(***************************************************************************)
\* the search box of NodesList calls setSearchQuery
SetSearchQuery(q) ==
    /\ q # searchQuery
    /\ Render("query", schemata, FALSE, q, selectedSchemaId)

\* an entry of NodesList calls setSelectedSchemaId = openNodeDocumentation
SetSelectedSchemaId(id) ==
    /\ id \in SchemaIdsOf(schemata)
    /\ Render("select", schemata, FALSE, searchQuery,
              OpenNodeDocumentation(selectedSchemaId, id))

\* BackendContext delivers a new schema collection
SchemataChanged(new) ==
    Render("schemata", new, TRUE, searchQuery, selectedSchemaId)

(***************************************************************************)
(* Specification                                                           *)
(***************************************************************************)
MainTermSets == {{Blur}}

Init ==
    /\ schemata = <<>>
    /\ selectedSchemaId = Undefined
    /\ searchQuery = <<>>
    /\ helperNodeMapping = HelperNodeMapping(schemata)
    /\ searchScores = Absent
    /\ searchTerms = Absent
    /\ autoSelectCall = NoCall
    /\ event = "init"

NextQuery == \E q \in Queries : SetSearchQuery(q)

NextSelect == \E id \in SchemaIds : SetSelectedSchemaId(id)

NextSchemata ==
    \E new \in Replacements(schemata, NodeSchemaOver(MainTermSets)) :
        SchemataChanged(new)

Next == NextQuery \/ NextSelect \/ NextSchemata

Spec == Init /\ [][Next]_vars

(***************************************************************************)
(* Specification of the highlight pattern: two plain schemas whose index   *)
(* entries report the matched terms, drawn from all short terms            *)
(***************************************************************************)
MaxTermLen == 2
MaxTextLen == 3

Chars == {"b", "B", "."}

BlurUpper == <<"B", "l", "u", "r">>

HighlightTerms ==
    (SeqsUpTo(Chars, MaxTermLen) \ {<<>>}) \cup {Blur, BlurUpper}

HighlightTermSets == {{t} : t \in HighlightTerms}

Texts ==
    SeqsUpTo(Chars, MaxTextLen)
    \cup {Blur, Blur \o <<".">>, Blur \o <<"r", "y">>, BlurUpper \o <<" ">>}

HighlightSchemas ==
    [schemaId : {"A", "B"}, defaultNodes : {{}}, relevance : {1},
     terms : HighlightTermSets]

NextSchemataHighlight ==
    \E new \in Replacements(schemata, HighlightSchemas) : SchemataChanged(new)

NextHighlight == NextQuery \/ NextSchemataHighlight

SpecHighlight == Init /\ [][NextHighlight]_vars

highlightRegex == HighlightRegex(searchTerms)

(***************************************************************************)
(* Properties                                                              *)
(***************************************************************************)
SearchActive == IsSome(searchScores)

scores == Value(searchScores)

\* the results the index returned for the current query
searchResults == Search(CreateSearchIndex(schemata))

MatchedIds == {searchResults[i].id : i \in DOMAIN searchResults}

ResultIndex(id) == CHOOSE i \in DOMAIN searchResults : searchResults[i].id = id

OwnScore(id) == searchResults[ResultIndex(id)].score

Declares(P, H) ==
    \E i \in DOMAIN schemata :
        schemata[i].schemaId = P /\ H \in schemata[i].defaultNodes

\* H is a helper whose parent is P
IsHelperOf(H, P) ==
    /\ H # P
    /\ Declares(P, H)
    /\ MappingGet(helperNodeMapping, H) = P

EntriesOf(id) == {i \in DOMAIN scores : scores[i].id = id}

\* C1: when the query matches only a helper H of parent P, the score map
\* holds both H and P with equal scores, and where the effect ran it asked to
\* open P, not H.
C1_HelperOnlyMatchOpensParent ==
    SearchActive =>
        \A H, P \in SchemaIds :
            (MatchedIds = {H} /\ IsHelperOf(H, P)) =>
                /\ ScoresHas(scores, H)
                /\ ScoresHas(scores, P)
                /\ ScoresGet(scores, P) = ScoresGet(scores, H)
                /\ AutoSelect(searchScores, helperNodeMapping) = P
                /\ autoSelectCall # NoCall => autoSelectCall = P

C1_Witness ==
    /\ SearchActive
    /\ \E H, P \in SchemaIds :
          /\ MatchedIds = {H}
          /\ IsHelperOf(H, P)
          /\ autoSelectCall = P
          /\ selectedSchemaId = P

\* C2: when the query matches a helper H and its parent P directly, the score
\* of P in the final map is the score the search returned for P, in either
\* order of the two results.
C2_ParentKeepsOwnScore ==
    SearchActive =>
        \A H, P \in SchemaIds :
            (IsHelperOf(H, P) /\ {H, P} \subseteq MatchedIds) =>
                ScoresGet(scores, P) = OwnScore(P)

\* H comes before P and would have promoted another score
C2_Witness ==
    /\ SearchActive
    /\ \E H, P \in SchemaIds :
          /\ IsHelperOf(H, P)
          /\ {H, P} \subseteq MatchedIds
          /\ ResultIndex(H) < ResultIndex(P)
          /\ OwnScore(H) # OwnScore(P)

IsBlank(q) == \A i \in DOMAIN q : q[i] = " "

ScoresAbsentOrEmpty == ~IsSome(searchScores) \/ Value(searchScores) = <<>>

\* C3: for an empty or whitespace-only query the score map and the terms are
\* absent; whenever the score map is absent or empty the effect does not call
\* openNodeDocumentation, and the selected identifier changes only by a
\* selection made in the node list.
C3_NoAutoSelectWithoutScores ==
    /\ [](IsBlank(searchQuery) => ~IsSome(searchScores) /\ ~IsSome(searchTerms))
    /\ [](ScoresAbsentOrEmpty => autoSelectCall = NoCall)
    /\ [][ScoresAbsentOrEmpty' /\ event' # "select"
            => selectedSchemaId' = selectedSchemaId]_vars

\* a whitespace-only query typed while a schema that matches is selected
C3_Witness ==
    /\ searchQuery = <<" ">>
    /\ event = "query"
    /\ selectedSchemaId # Undefined
    /\ \E i \in DOMAIN schemata : schemata[i].relevance > 0

\* C4: every key of the score map identifies a schema of the current
\* collection, and every pair of the helper map is declared by a schema of
\* the current collection.
C4_ScoresReferToCurrentSchemas ==
    /\ SearchActive => ScoresKeys(scores) \subseteq SchemaIdsOf(schemata)
    /\ \A H \in DOMAIN helperNodeMapping : Declares(helperNodeMapping[H], H)
    /\ helperNodeMapping = HelperNodeMapping(schemata)

\* the collection lost the selected schema during an active search that
\* still lists a promoted parent
C4_Witness ==
    /\ SearchActive
    /\ event = "schemata"
    /\ \E P \in ScoresKeys(scores) : P \notin MatchedIds
    /\ DOMAIN helperNodeMapping # {}
    /\ Len(schemata) = 2

FirstMaxIndex ==
    CHOOSE i \in DOMAIN scores :
        /\ \A j \in DOMAIN scores : scores[j].score <= scores[i].score
        /\ \A j \in DOMAIN scores : j < i => scores[j].score < scores[i].score

ExampleScores ==
    <<[id |-> "A", score |-> 9], [id |-> "B", score |-> 9], [id |-> "C", score |-> 5]>>

\* C5: among the identifiers that share the maximum score the effect picks
\* the first in insertion order of the score map, then resolves it through
\* the helper map; for {A: 0.9, B: 0.9, C: 0.5} (scores in tenths) without
\* helpers it opens A.
C5_TieGoesToFirstInserted ==
    /\ (SearchActive /\ scores # <<>>) =>
          /\ HighestScoreSchemaId(scores) = scores[FirstMaxIndex].id
          /\ autoSelectCall # NoCall =>
                autoSelectCall =
                    ResolveHelper(helperNodeMapping, scores[FirstMaxIndex].id)
    /\ AutoSelect(Some(ExampleScores), EmptyMapping) = "A"

\* two identifiers tie at the maximum, the first is no helper and was opened
C5_Witness ==
    /\ SearchActive
    /\ Len(scores) = 3
    /\ scores[1].score = scores[2].score
    /\ scores[3].score < scores[1].score
    /\ helperNodeMapping = EmptyMapping
    /\ autoSelectCall = scores[1].id

WordFollows(text, i, len) ==
    i + len <= Len(text) /\ IsWordChar(text[i + len])

EqualIgnoringCase(a, b) ==
    /\ Len(a) = Len(b)
    /\ \A k \in DOMAIN a : LowerChar(a[k]) = LowerChar(b[k])

\* text has term t at position i
OccursAt(t, text, i) ==
    /\ i + Len(t) - 1 <= Len(text)
    /\ EqualIgnoringCase(SubSeq(text, i, i + Len(t) - 1), t)

\* the occurrences of a term in text that no word character follows
ExpectedSpans(terms, text) ==
    {<<i, Len(t)>> : i \in 1..(Len(text) + 1), t \in terms}
    \cap {span \in (1..(Len(text) + 1)) \X (0..Len(text)) :
            /\ \E t \in terms : Len(t) = span[2] /\ OccursAt(t, text, span[1])
            /\ ~WordFollows(text, span[1], span[2])}

\* C6: the highlight pattern matches a span of a text exactly when the span
\* equals one of the terms up to case and is not immediately followed by a
\* word character; for {"blur"} it matches in "blur" and "blur." and nowhere
\* in "blurry".
C6_HighlightNotBeforeWordChar ==
    (IsSome(searchTerms) /\ Value(searchTerms) # {}) =>
        /\ \A text \in Texts :
              RegExpMatches(Value(highlightRegex), text)
                  = ExpectedSpans(Value(searchTerms), text)
        /\ Value(searchTerms) = {Blur} =>
              /\ RegExpMatches(Value(highlightRegex), Blur) = {<<1, 4>>}
              /\ RegExpMatches(Value(highlightRegex), Blur \o <<".">>) = {<<1, 4>>}
              /\ RegExpMatches(Value(highlightRegex), Blur \o <<"r", "y">>) = {}

\* the index reported "Blur", the pattern is built from "blur"
C6_Witness ==
    /\ IsSome(searchTerms)
    /\ Value(searchTerms) = {Blur}
    /\ \E i \in DOMAIN schemata : schemata[i].terms = {BlurUpper}
    /\ RegExpMatches(Value(highlightRegex), BlurUpper \o <<" ">>) = {<<1, 4>>}

\* C7: the identifier the effect passes to openNodeDocumentation has, in the
\* score map, the maximum score of the map.
C7_OpenedHasHighestScore ==
    (SearchActive /\ scores # <<>> /\ autoSelectCall # NoCall) =>
        /\ ScoresHas(scores, autoSelectCall)
        /\ ScoresGet(scores, autoSelectCall) = HighestScore(scores)

\* C8: the effect calls openNodeDocumentation only in a step that changes
\* the query or delivers a collection; a selection made in the node list is
\* kept by every step that does neither; every query change that yields a
\* non-empty score map selects the resolved best match.
C8_AutoSelectOnlyOnSearchChange ==
    [][/\ autoSelectCall' # NoCall => event' \in {"query", "schemata"}
       /\ event' = "select" =>
             autoSelectCall' = NoCall /\ searchScores' = searchScores
       /\ (searchQuery' # searchQuery /\ IsSome(searchScores')
              /\ Value(searchScores') # <<>>) =>
             /\ autoSelectCall' = AutoSelect(searchScores', helperNodeMapping')
             /\ selectedSchemaId' = autoSelectCall']_vars

\* a selection from the node list stands although the search prefers another
C8_Witness ==
    /\ event = "select"
    /\ SearchActive
    /\ scores # <<>>
    /\ autoSelectCall = NoCall
    /\ selectedSchemaId # AutoSelect(searchScores, helperNodeMapping)

HelpersMatched(P) ==
    {i \in DOMAIN searchResults :
        MappingGet(helperNodeMapping, searchResults[i].id) = P}

FirstHelperMatched(P) ==
    CHOOSE i \in HelpersMatched(P) : \A j \in HelpersMatched(P) : i <= j

\* C9: when helpers of P match and P does not, P has one entry in the score
\* map and its score is that of the first of these helpers in result order.
C9_ParentPromotedOnce ==
    SearchActive =>
        \A P \in SchemaIds :
            (P \notin MatchedIds /\ HelpersMatched(P) # {}) =>
                /\ Cardinality(EntriesOf(P)) = 1
                /\ ScoresGet(scores, P) = searchResults[FirstHelperMatched(P)].score

\* two helpers of P match with different scores
C9_Witness ==
    /\ SearchActive
    /\ \E P \in SchemaIds :
          /\ P \notin MatchedIds
          /\ \E i, j \in HelpersMatched(P) :
                i < j /\ searchResults[i].score # searchResults[j].score

\* C10: the identifier the effect passes to openNodeDocumentation is a key
\* of the score map, whatever the helper map.
C10_OpenedIsListed ==
    (SearchActive /\ scores # <<>> /\ autoSelectCall # NoCall) =>
        ScoresHas(scores, autoSelectCall)

\* the best match is a helper whose parent is itself a helper
C10_Witness ==
    /\ SearchActive
    /\ scores # <<>>
    /\ autoSelectCall # NoCall
    /\ autoSelectCall # HighestScoreSchemaId(scores)
    /\ autoSelectCall \in DOMAIN helperNodeMapping
    /\ helperNodeMapping[autoSelectCall] # HighestScoreSchemaId(scores)

TypeOK ==
    /\ IsCollection(schemata)
    /\ selectedSchemaId \in SchemaIds \cup {Undefined}
    /\ searchQuery \in Queries
    /\ autoSelectCall \in SchemaIds \cup {NoCall}

====
